---- MODULE Spec2Model ----
(***************************************************************************)
(* Model of the DFT rendezvous server (src/lib/server.js): the registry    *)
(* `codes`, the per-connection handshake, the pairing callback and the     *)
(* socket lifecycle, plus the byte relay set up by the two pipe() calls.   *)
(*                                                                         *)
(* Node.js runs each event handler to completion, so every action below    *)
(* is one whole handler: the 'secureConnection' handler, the once('data')  *)
(* handler of handshake() together with the callback it calls              *)
(* synchronously, the 'close' observer, and a socket's 'error' event.      *)
(***************************************************************************)
EXTENDS Integers, Sequences, FiniteSets, TLC

(***************************************************************************)
(* Bounds                                                                  *)
(***************************************************************************)
\* number of connection slots; a closed slot can be connected again
NConn == 2

\* how many characters of the alphabet the modelled configuration allows
AlphabetSize == 2

\* the longest payload the uploader writes, in bytes
MaxPayload == 3

\* highWaterMark of a socket's buffers, in bytes (16384 in Node.js), scaled down
HighWaterMark == 2

(***************************************************************************)
(* Configuration (config.server)                                           *)
(***************************************************************************)
\* the default of config.server.allowedChars (server.js:8)
defaultAllowedChars ==
  <<"A", "B", "C", "D", "E", "F", "G", "H", "I", "J", "K", "L", "M",
    "N", "O", "P", "Q", "R", "S", "T", "U", "V", "W", "X", "Y", "Z",
    "0", "1", "2", "3", "4", "5", "6", "7", "8", "9">>

\* const allowedChars (server.js:8): read from config.server.allowedChars
\* when the server starts and never assigned again
VARIABLE allowedChars

\* config.server.allowedChars of the modelled configuration: the first
\* AlphabetSize characters of the default alphabet
configuredChars == SubSeq(defaultAllowedChars, 1, AlphabetSize)

\* a configuration with fewer codes than there are connection slots
scarceChars == SubSeq(defaultAllowedChars, 1, NConn - 1)

\* config.server.codeSize (server.js:101): the modelled configuration issues
\* codes of one character, so that there are AlphabetSize codes
codeSize == 1

Conns == 1..NConn

(***************************************************************************)
(* JavaScript values carried by the JSON intent                            *)
(***************************************************************************)
Undef == [t |-> "undefined"]
Str(s) == [t |-> "string", s |-> s]
Num(n) == [t |-> "number", n |-> n]
Bool(b) == [t |-> "boolean", b |-> b]

\* JavaScript truthiness, as used by `!x` and `x && y`
Truthy(v) ==
  CASE v.t = "undefined" -> FALSE
    [] v.t = "string"    -> v.s # ""
    [] v.t = "number"    -> v.n # 0
    [] v.t = "boolean"   -> v.b

DigitChars == <<"0", "1", "2", "3", "4", "5", "6", "7", "8", "9">>

RECURSIVE NatToString(_)
NatToString(n) ==
  IF n < 10 THEN DigitChars[n + 1]
  ELSE NatToString(n \div 10) \o DigitChars[(n % 10) + 1]

\* x.toString() (server.js:94)
toString(v) ==
  CASE v.t = "string"  -> v.s
    [] v.t = "number"  -> NatToString(v.n)
    [] v.t = "boolean" -> IF v.b THEN "true" ELSE "false"

\* mutant: a comparison that looks at the lengths only
timingSafeEqualLengthOnly(a, b) ==
  IF Len(a) # Len(b) THEN "throws" ELSE "true"

\* crypto.timingSafeEqual(Buffer.from(a), Buffer.from(b)) (server.js:94):
\* throws a RangeError when the two buffers differ in byte length
timingSafeEqual(a, b) ==
  IF Len(a) # Len(b) THEN "throws"
  ELSE IF a = b THEN "true" ELSE "false"

(***************************************************************************)
(* Code generation                                                         *)
(***************************************************************************)
\* the loop of genCode over the alphabet `chars`: every string the random
\* draws can produce
RECURSIVE genCodeLoop(_, _, _, _)
genCodeLoop(chars, code, i, size) ==
  IF i < size
  THEN UNION { genCodeLoop(chars, code \o chars[char + 1], i + 1, size) :
                 char \in 0..(Len(chars) - 1) }
  ELSE {code}

\* mutant: the loop runs once too often (i <= size)
genCodeOffByOne(size) == genCodeLoop(allowedChars, "", 0, size + 1)

genCode(size) == genCodeLoop(allowedChars, "", 0, size)

(***************************************************************************)
(* State                                                                   *)
(***************************************************************************)
VARIABLES
  server,         \* "running" | "crashed" (uncaught exception) | "looping"
  codes,          \* the Map code -> transferInfo object (named by its slot)
  transferInfo,   \* per slot: the value JSON.parse produced, as mutated
  sock,           \* per slot: "closed" | "open" | "destroyed"
  dataListener,   \* per slot: the once('data') listener is installed
  closeObserver,  \* per slot: the once('close') cleanup is installed
  errorListener,  \* per slot: an 'error' listener is installed
  pipes,          \* per slot: the sockets this socket is piped into
  sent,           \* per slot: what the server itself wrote on the socket
  pairCount,      \* history: pairings made onto this slot's session
  lastReleased,   \* history: the code a close has deleted since the last
                  \* first message was handled ("" if none)
  relay,          \* the uploader -> downloader direction of a paired relay
  client          \* one client process (its side of the protocol)

vars == <<server, codes, transferInfo, sock, dataListener, closeObserver,
          errorListener, pipes, sent, pairCount, lastReleased, relay, client,
          allowedChars>>

\* no transferInfo object (nothing parsed on this connection)
NoInfo == [t |-> "none"]

codesHas(code) == code \in DOMAIN codes

codesSet(m, code, info) ==
  [k \in (DOMAIN m) \cup {code} |-> IF k = code THEN info ELSE m[k]]

codesDelete(m, code) == [k \in (DOMAIN m) \ {code} |-> m[k]]

\* mutant: the drawn code is returned without looking at the registry
genUniqueCodeUnchecked(size) == genCode(size)

\* genUniqueCode: redraw while the registry holds the code
genUniqueCode(size) == { code \in genCode(size) : ~codesHas(code) }

(***************************************************************************)
(* Messages the server writes                                              *)
(***************************************************************************)
FinalizeHandshake(code) == [seq |-> "FINALIZE_HANDSHAKE", code |-> code]

ErrorReply(message) == [error |-> message]

\* mutant: the completion message leaves the file size out
PipingCompleteNoSize(uploader) ==
  [seq |-> "PIPING_COMPLETE",
   fileType |-> uploader.fileType,
   fileName |-> uploader.fileName,
   fileSize |-> Undef]

PipingComplete(uploader) ==
  [seq |-> "PIPING_COMPLETE",
   fileType |-> uploader.fileType,
   fileName |-> uploader.fileName,
   fileSize |-> uploader.fileSize]

(***************************************************************************)
(* First messages a client can send                                        *)
(***************************************************************************)
Garbage == [t |-> "garbage"]      \* not JSON: JSON.parse throws
JsonNull == [t |-> "null"]        \* the JSON text `null`
JsonNumber == Num(5)              \* the JSON text `5`: JSON, but no record;
                                  \* its properties read as undefined

Intent(type, name, ftype, size, pw, ccode, busy) ==
  [t |-> "object", transferType |-> type, fileName |-> name,
   fileType |-> ftype, fileSize |-> size, password |-> pw,
   clientCode |-> ccode, busy |-> busy, code |-> Undef, socket |-> 0]

\* the codes a client can have been told: those of the modelled configuration
Codes == genCodeLoop(configuredChars, "", 0, codeSize)

Upload(name, ftype, size, pw) ==
  Intent(Str("upload"), name, ftype, size, pw, Undef, Undef)

Download(ccode, pw) ==
  Intent(Str("download"), Undef, Undef, Undef, pw, ccode, Undef)

\* the first messages of the registry and pairing scenarios
FirstMessages ==
  { Upload(Str("a.txt"), Str("file"), Num(1), Undef),
    Upload(Str("b.txt"), Str("directory"), Num(2), Undef),
    Upload(Undef, Str("file"), Undef, Undef),
    Upload(Str("a.txt"), Undef, Undef, Undef),
    Download(Undef, Undef),
    Intent(Str("relay"), Undef, Undef, Undef, Undef, Undef, Undef),
    Intent(Undef, Str("a.txt"), Str("file"), Undef, Undef, Undef, Undef),
    Garbage, JsonNull }
  \cup { Download(Str(k), Undef) : k \in Codes }

\* the first messages of the password scenarios: sessions without a password,
\* with a string, with a number whose string form is that string, and with
\* the empty string; requests without a password, with the same string, with
\* another string of the same length and with a longer string
SessionPasswords == { Undef, Str("1"), Num(1), Str("") }

RequestPasswords == { Undef, Str("1"), Str("2"), Str("22") }

PasswordMessages ==
  { Upload(Str("a.txt"), Str("file"), Num(1), pw) : pw \in SessionPasswords }
  \cup { Download(Str(k), pw) : k \in Codes, pw \in RequestPasswords }

(***************************************************************************)
(* handshake(): the checks of the once('data') handler                     *)
(***************************************************************************)
NoError == ""

\* mutant: the password is checked before the busy flag
sessionErrorPasswordFirst(uploader, info) ==
  IF Truthy(uploader.password) /\ ~Truthy(info.password)
    THEN "Password does not match"
  ELSE IF Truthy(uploader.password)
          /\ timingSafeEqual(toString(uploader.password), toString(info.password)) = "throws"
    THEN "Input buffers must have the same byte length"
  ELSE IF Truthy(uploader.password)
          /\ timingSafeEqual(toString(uploader.password), toString(info.password)) = "false"
    THEN "Password does not match"
  ELSE IF Truthy(uploader.busy) THEN "Download ID busy"
  ELSE NoError

\* server.js:83-98: the busy flag and the password of the upload session
sessionError(uploader, info) ==
  IF Truthy(uploader.busy) THEN "Download ID busy"
  ELSE IF Truthy(uploader.password) /\ ~Truthy(info.password)
    THEN "Password does not match"
  ELSE IF Truthy(uploader.password)
    THEN CASE timingSafeEqual(toString(uploader.password), toString(info.password)) = "throws"
                -> "Input buffers must have the same byte length"
           [] timingSafeEqual(toString(uploader.password), toString(info.password)) = "false"
                -> "Password does not match"
           [] OTHER -> NoError
  ELSE NoError

\* mutant: a session of another role is reported as such
uploaderErrorRoleLeak(uploader, info) ==
  IF uploader.transferType # Str("upload") THEN "Download ID is not an upload"
  ELSE sessionError(uploader, info)

\* server.js:75-98: the checks against the session the client code names
uploaderError(uploader, info) ==
  IF uploader.transferType # Str("upload") THEN "Download ID not found"
  ELSE sessionError(uploader, info)

\* server.js:47-99: the message of the Error handed to the callback, or NoError
handshakeError(data) ==
  IF data = Garbage THEN "Unexpected token in JSON"
  ELSE IF data = JsonNull THEN "Cannot read properties of null"
  ELSE IF data.t # "object" THEN "Missing transfer type"
  ELSE IF ~Truthy(data.transferType) THEN "Missing transfer type"
  ELSE IF data.transferType = Str("upload")
          /\ (~Truthy(data.fileName) \/ ~Truthy(data.fileType))
    THEN "Missing file name or type"
  ELSE IF data.transferType = Str("download") /\ ~Truthy(data.clientCode)
    THEN "Missing client code"
  ELSE IF data.transferType = Str("download") /\ ~codesHas(toString(data.clientCode))
    THEN "Download ID not found"
  ELSE IF data.transferType = Str("download")
    THEN uploaderError(transferInfo[codes[toString(data.clientCode)]], data)
  ELSE NoError

(***************************************************************************)
(* The relay: uploader.socket.pipe(socket), one direction                  *)
(***************************************************************************)
\* written:   what the uploader's client has written since the pairing
\* fin:       the uploader's client has ended its stream
\* wire:      written, not yet read by the server
\* piped:     the pipe of server.js:167 is in place
\* flowing:   uploader.socket is flowing (not paused by the pipe)
\* readBuf:   read by uploader.socket while paused, not yet emitted
\* writeBuf:  accepted by socket.write() on the downloader's socket, not yet
\*            flushed to its connection
\* needDrain: a write returned false; 'drain' follows when writeBuf empties
\* ending:    the pipe has called end() on the downloader's socket
\* finished:  the downloader's socket has flushed everything and is closed
\* delivered: the bytes put on the downloader's connection
\* paused:    history: the pipe has paused the source at least once
\* back:      the same fields for the pipe of server.js:168, from the
\*            downloader's socket into the uploader's
NoPipe ==
  [written |-> <<>>, fin |-> FALSE, wire |-> <<>>, piped |-> FALSE,
   flowing |-> FALSE, readBuf |-> <<>>, writeBuf |-> <<>>, needDrain |-> FALSE,
   ending |-> FALSE, finished |-> FALSE, delivered |-> <<>>, paused |-> FALSE]

\* the pipe right after source.pipe(destination)
NewPipe == [NoPipe EXCEPT !.piped = TRUE, !.flowing = TRUE]

NoRelay ==
  [written |-> <<>>, fin |-> FALSE, wire |-> <<>>, piped |-> FALSE,
   flowing |-> FALSE, readBuf |-> <<>>, writeBuf |-> <<>>, needDrain |-> FALSE,
   ending |-> FALSE, finished |-> FALSE, delivered |-> <<>>, paused |-> FALSE,
   back |-> NoPipe]

\* mutant: only the pipe towards the downloader is set up
NewRelayOneWay == [NoRelay EXCEPT !.piped = TRUE, !.flowing = TRUE]

\* the relay right after uploader.socket.pipe(socket) and
\* socket.pipe(uploader.socket)
NewRelay == [NoRelay EXCEPT !.piped = TRUE, !.flowing = TRUE, !.back = NewPipe]

Bytes == {"x", "y"}

\* mutant: a chunk that fills the buffer is not kept
pipeOnDataDropsWhenFull(r, chunk) ==
  IF Len(r.writeBuf) + Len(chunk) < HighWaterMark
  THEN [r EXCEPT !.writeBuf = @ \o chunk]
  ELSE [r EXCEPT !.needDrain = TRUE, !.flowing = FALSE, !.paused = TRUE]

\* mutant: a full buffer does not pause the source
pipeOnDataNeverPauses(r, chunk) == [r EXCEPT !.writeBuf = @ \o chunk]

\* the pipe's 'data' listener: dest.write(chunk) buffers the chunk and
\* returns false once the buffer has reached highWaterMark; the pipe then
\* pauses the source until 'drain'
pipeOnData(r, chunk) ==
  IF Len(r.writeBuf) + Len(chunk) < HighWaterMark
  THEN [r EXCEPT !.writeBuf = @ \o chunk]
  ELSE [r EXCEPT !.writeBuf = @ \o chunk, !.needDrain = TRUE,
                 !.flowing = FALSE, !.paused = TRUE]

\* the pipe's 'drain' listener: the source flows again and emits what it
\* buffered while paused
pipeOnDrain(r) ==
  IF r.piped
  THEN IF r.readBuf = <<>>
       THEN [r EXCEPT !.needDrain = FALSE, !.flowing = TRUE]
       ELSE pipeOnData([r EXCEPT !.needDrain = FALSE, !.flowing = TRUE,
                                 !.readBuf = <<>>], r.readBuf)
  ELSE [r EXCEPT !.needDrain = FALSE]

\* no client process is looked at
NoClient == [state |-> "none"]

(***************************************************************************)
(* Initial state: the server listens, no connection yet                    *)
(***************************************************************************)
\* the server started with the given alphabet
ServerInit(chars) ==
  /\ allowedChars = chars
  /\ server = "running"
  /\ codes = [k \in {} |-> 0]
  /\ transferInfo = [c \in Conns |-> NoInfo]
  /\ sock = [c \in Conns |-> "closed"]
  /\ dataListener = [c \in Conns |-> FALSE]
  /\ closeObserver = [c \in Conns |-> FALSE]
  /\ errorListener = [c \in Conns |-> FALSE]
  /\ pipes = [c \in Conns |-> {}]
  /\ sent = [c \in Conns |-> <<>>]
  /\ pairCount = [c \in Conns |-> 0]
  /\ lastReleased = ""
  /\ relay = NoRelay

InitWith(chars) == ServerInit(chars) /\ client = NoClient

Init == InitWith(configuredChars)

(***************************************************************************)
(* Actions                                                                 *)
(***************************************************************************)
\* server.on('secureConnection'): handshake(socket, cb) installs once('data')
secureConnection(c) ==
  /\ server = "running"
  /\ sock[c] = "closed"
  /\ sock' = [sock EXCEPT ![c] = "open"]
  /\ dataListener' = [dataListener EXCEPT ![c] = TRUE]
  /\ UNCHANGED <<server, codes, transferInfo, closeObserver, errorListener,
                 pipes, sent, pairCount, lastReleased, relay, client,
                 allowedChars>>

\* mutant: the code is allocated and registered before the checks, so a
\* rejected request leaves its entry behind
handshakeFailedRegistered(c, data, message) ==
  /\ dataListener' = [dataListener EXCEPT ![c] = FALSE]
  /\ transferInfo' = [transferInfo EXCEPT
                        ![c] = IF data = Garbage THEN NoInfo ELSE data]
  /\ codes' = IF genUniqueCode(codeSize) = {} THEN codes
              ELSE codesSet(codes, CHOOSE k \in genUniqueCode(codeSize) : TRUE, c)
  /\ sent' = [sent EXCEPT ![c] = Append(@, ErrorReply(message))]
  /\ sock' = [sock EXCEPT ![c] = "destroyed"]
  /\ lastReleased' = ""
  /\ UNCHANGED <<server, closeObserver, errorListener, pipes, pairCount,
                 relay, client, allowedChars>>

\* mutant: the error is written but the socket is not destroyed
handshakeFailedNoDestroy(c, data, message) ==
  /\ dataListener' = [dataListener EXCEPT ![c] = FALSE]
  /\ transferInfo' = [transferInfo EXCEPT
                        ![c] = IF data = Garbage THEN NoInfo ELSE data]
  /\ sent' = [sent EXCEPT ![c] = Append(@, ErrorReply(message))]
  /\ lastReleased' = ""
  /\ UNCHANGED <<server, codes, sock, closeObserver, errorListener, pipes,
                 pairCount, relay, client, allowedChars>>

\* callback(null, err): the error reply, then socket.destroy()
handshakeFailed(c, data, message) ==
  /\ dataListener' = [dataListener EXCEPT ![c] = FALSE]
  /\ transferInfo' = [transferInfo EXCEPT
                        ![c] = IF data = Garbage THEN NoInfo ELSE data]
  /\ sent' = [sent EXCEPT ![c] = Append(@, ErrorReply(message))]
  /\ sock' = [sock EXCEPT ![c] = "destroyed"]
  /\ lastReleased' = ""
  /\ UNCHANGED <<server, codes, closeObserver, errorListener, pipes, pairCount,
                 relay, client, allowedChars>>

\* mutant: the busy flag is not set
markBusyForgotten(uploader) == uploader

\* server.js:165: uploader.busy = true
markBusy(uploader) == [uploader EXCEPT !.busy = Bool(TRUE)]

\* server.js:161-184: the callback's download branch, on the registry as it
\* is after codes.set
pairWithUploader(c, info, registry) ==
  LET u == registry[toString(info.clientCode)] IN
  /\ transferInfo' = [d \in Conns |->
        IF d = u
          THEN markBusy(IF d = c THEN info ELSE transferInfo[d])
        ELSE IF d = c THEN info
        ELSE transferInfo[d]]
  /\ pipes' = [d \in Conns |->
        IF d = u THEN pipes[d] \cup {c}
        ELSE IF d = c THEN pipes[d] \cup {u}
        ELSE pipes[d]]
  /\ errorListener' = [errorListener EXCEPT ![u] = TRUE, ![c] = TRUE]
  /\ pairCount' = [pairCount EXCEPT ![u] = @ + 1]
  /\ sent' = [sent EXCEPT
        ![c] = @ \o <<FinalizeHandshake(toString(info.code)),
                      PipingComplete(transferInfo[u])>>]

\* server.js:101-124 and the callback of server.js:146-185 on success: what
\* they do to the server's own state
acceptIntent(c, data, code) ==
  LET info == [data EXCEPT !.code = Str(code), !.socket = c]
      registry == codesSet(codes, code, c)
  IN
  /\ dataListener' = [dataListener EXCEPT ![c] = FALSE]
  /\ closeObserver' = [closeObserver EXCEPT ![c] = TRUE]
  /\ codes' = registry
  /\ IF info.transferType = Str("download")
     THEN pairWithUploader(c, info, registry)
     ELSE /\ transferInfo' = [transferInfo EXCEPT ![c] = info]
          /\ sent' = [sent EXCEPT ![c] = Append(@, FinalizeHandshake(code))]
          /\ UNCHANGED <<pipes, errorListener, pairCount>>
  /\ lastReleased' = ""
  /\ UNCHANGED <<server, sock>>

\* the same where the bytes relayed afterwards are not looked at
handshakeAccepted(c, data, code) ==
  /\ acceptIntent(c, data, code)
  /\ UNCHANGED <<relay, client, allowedChars>>

\* the once('data') handler of handshake(), with the callback it calls
handshake(c, data) ==
  /\ server = "running"
  /\ sock[c] = "open"
  /\ dataListener[c]
  /\ IF handshakeError(data) # NoError
     THEN handshakeFailed(c, data, handshakeError(data))
     ELSE IF genUniqueCode(codeSize) = {}
       THEN \* every code is registered: the redraw loop never ends
            /\ server' = "looping"
            /\ UNCHANGED <<codes, transferInfo, sock, dataListener, closeObserver,
                           errorListener, pipes, sent, pairCount, lastReleased,
                           relay, client, allowedChars>>
     ELSE \E code \in genUniqueCode(codeSize) : handshakeAccepted(c, data, code)

\* mutant: the observer does not delete the entry
closeCleanupKeeps(c) == codes

\* mutant: the observer also deletes the entries of the sockets this one is
\* piped into
closeCleanupRemovesPeers(c) ==
  IF closeObserver[c] /\ Truthy(transferInfo[c].code)
  THEN [k \in { k \in DOMAIN codes :
                  k # toString(transferInfo[c].code) /\ codes[k] \notin pipes[c] }
          |-> codes[k]]
  ELSE codes

\* mutant: the observer deletes the code the client presented, if it
\* presented one, instead of the code it was issued
closeCleanupByClientCode(c) ==
  IF closeObserver[c] /\ Truthy(transferInfo[c].code)
  THEN codesDelete(codes,
         IF Truthy(transferInfo[c].clientCode)
         THEN toString(transferInfo[c].clientCode)
         ELSE toString(transferInfo[c].code))
  ELSE codes

\* the registry after the once('close') observer of slot c has run
closeCleanup(c) ==
  IF closeObserver[c] /\ Truthy(transferInfo[c].code)
  THEN codesDelete(codes, toString(transferInfo[c].code))
  ELSE codes

\* mutant: the close of a downloader frees the session it was paired with
socketClosedFreesUploader(c) ==
  /\ codes' = closeCleanup(c)
  /\ lastReleased' = IF codes' # codes THEN toString(transferInfo[c].code)
                     ELSE lastReleased
  /\ transferInfo' = [d \in Conns |->
        IF d = c THEN NoInfo
        ELSE IF c \in pipes[d] /\ transferInfo[d].transferType = Str("upload")
          THEN [transferInfo[d] EXCEPT !.busy = Bool(FALSE)]
        ELSE transferInfo[d]]
  /\ sock' = [sock EXCEPT ![c] = "closed"]
  /\ dataListener' = [dataListener EXCEPT ![c] = FALSE]
  /\ closeObserver' = [closeObserver EXCEPT ![c] = FALSE]
  /\ errorListener' = [errorListener EXCEPT ![c] = FALSE]
  /\ pipes' = [d \in Conns |-> IF d = c THEN {} ELSE pipes[d] \ {c}]
  /\ sent' = [sent EXCEPT ![c] = <<>>]
  /\ pairCount' = [pairCount EXCEPT ![c] = 0]
  /\ UNCHANGED server

\* the socket's 'close' event: the observer of server.js:104-114 if it is
\* installed; the stream machinery drops the pipes of a closed socket
socketClosed(c) ==
  /\ codes' = closeCleanup(c)
  /\ lastReleased' = IF codes' # codes THEN toString(transferInfo[c].code)
                     ELSE lastReleased
  /\ transferInfo' = [transferInfo EXCEPT ![c] = NoInfo]
  /\ sock' = [sock EXCEPT ![c] = "closed"]
  /\ dataListener' = [dataListener EXCEPT ![c] = FALSE]
  /\ closeObserver' = [closeObserver EXCEPT ![c] = FALSE]
  /\ errorListener' = [errorListener EXCEPT ![c] = FALSE]
  /\ pipes' = [d \in Conns |-> IF d = c THEN {} ELSE pipes[d] \ {c}]
  /\ sent' = [sent EXCEPT ![c] = <<>>]
  /\ pairCount' = [pairCount EXCEPT ![c] = 0]
  /\ UNCHANGED server

\* the peer disconnects, or a destroyed socket reports its close
close(c) ==
  /\ server = "running"
  /\ sock[c] \in {"open", "destroyed"}
  /\ socketClosed(c)
  /\ UNCHANGED <<relay, client, allowedChars>>

\* does an 'error' event on the socket of slot c find a listener?
\* (server.js:169-174 are the only socket.on('error') calls)
errorHandled(c) == errorListener[c]

\* a transport error (ECONNRESET, ...) on an open socket: 'error' is emitted,
\* then 'close'. An 'error' event without a listener is thrown, and nothing
\* in server.js catches it: the process ends.
transportError(c) ==
  /\ server = "running"
  /\ sock[c] = "open"
  /\ IF errorHandled(c)
     THEN socketClosed(c)
     ELSE /\ server' = "crashed"
          /\ UNCHANGED <<codes, transferInfo, sock, dataListener, closeObserver,
                         errorListener, pipes, sent, pairCount, lastReleased>>
  /\ UNCHANGED <<relay, client, allowedChars>>

\* one step of the server, the clients' first messages drawn from `messages`
Step(messages) ==
  \/ \E c \in Conns : secureConnection(c)
  \/ \E c \in Conns : \E data \in messages : handshake(c, data)
  \/ \E c \in Conns : close(c)
  \/ \E c \in Conns : transportError(c)

Next == Step(FirstMessages)

Spec == Init /\ [][Next]_vars

PasswordNext == Step(PasswordMessages)

PasswordSpec == Init /\ [][PasswordNext]_vars

\* the first messages of the scenarios where the intent record carries more
\* than the protocol's fields: JSON.parse keeps every field of the record,
\* here a field `busy`
FieldMessages ==
  { Upload(Str("a.txt"), Str("file"), Num(1), Undef),
    Intent(Str("upload"), Str("a.txt"), Str("file"), Num(1), Undef, Undef, Bool(TRUE)),
    Intent(Str("upload"), Str("a.txt"), Str("file"), Num(1), Undef, Undef, Bool(FALSE)) }
  \cup { Download(Str(k), Undef) : k \in Codes }

FieldsNext == Step(FieldMessages)

FieldsSpec == Init /\ [][FieldsNext]_vars

\* a server configured with so few codes that the connections can hold
\* them all: NConn slots, NConn - 1 codes
ExhaustInit == InitWith(scarceChars)

ExhaustMessages ==
  { Upload(Str("a.txt"), Str("file"), Num(1), Undef),
    Upload(Str("b.txt"), Str("directory"), Num(2), Undef),
    Upload(Undef, Str("file"), Undef, Undef),
    Download(Undef, Undef),
    Intent(Undef, Str("a.txt"), Str("file"), Undef, Undef, Undef, Undef),
    Garbage, JsonNull }
  \cup { Download(Str(k), Undef) : k \in genCodeLoop(scarceChars, "", 0, codeSize) }
  \cup { Download(Str(defaultAllowedChars[NConn]), Undef) }

ExhaustNext == Step(ExhaustMessages)

ExhaustSpec == ExhaustInit /\ [][ExhaustNext]_vars

\* the first messages of the validation scenarios: every way to fail a
\* check, several of them at once, against sessions with a password that
\* are found, busy or not
ValidationMessages ==
  { Garbage, JsonNull, JsonNumber,
    Intent(Undef, Undef, Undef, Undef, Undef, Undef, Undef),
    Upload(Undef, Str("file"), Undef, Undef),
    Upload(Str("a.txt"), Undef, Undef, Undef),
    Upload(Str("a.txt"), Str("file"), Num(1), Str("1")),
    Download(Undef, Str("2")) }
  \cup { Download(Str(k), pw) : k \in Codes, pw \in {Undef, Str("1"), Str("2")} }

ValidationNext == Step(ValidationMessages)

ValidationSpec == Init /\ [][ValidationNext]_vars

(***************************************************************************)
(* The relay of one paired session                                         *)
(***************************************************************************)
handshakeVars == <<server, codes, transferInfo, sock, dataListener,
                   closeObserver, errorListener, pipes, sent, pairCount,
                   lastReleased, client, allowedChars>>

uploaderSlot == 1
downloaderSlot == 2

\* the state the handlers of an upload intent on slot 1 and of a download
\* request for its code on slot 2 leave behind
RelayInit ==
  LET up == [Upload(Str("a.txt"), Str("file"), Num(1), Undef)
               EXCEPT !.code = Str(allowedChars[1]), !.socket = uploaderSlot]
      down == [Download(Str(allowedChars[1]), Undef)
               EXCEPT !.code = Str(allowedChars[2]), !.socket = downloaderSlot]
      paired == {uploaderSlot, downloaderSlot}
  IN
  /\ allowedChars = configuredChars
  /\ client = NoClient
  /\ server = "running"
  /\ codes = [k \in {allowedChars[1], allowedChars[2]} |->
                IF k = allowedChars[1] THEN uploaderSlot ELSE downloaderSlot]
  /\ transferInfo = [c \in Conns |->
                IF c = uploaderSlot THEN markBusy(up)
                ELSE IF c = downloaderSlot THEN down ELSE NoInfo]
  /\ sock = [c \in Conns |-> IF c \in paired THEN "open" ELSE "closed"]
  /\ dataListener = [c \in Conns |-> FALSE]
  /\ closeObserver = [c \in Conns |-> c \in paired]
  /\ errorListener = [c \in Conns |-> c \in paired]
  /\ pipes = [c \in Conns |->
                IF c = uploaderSlot THEN {downloaderSlot}
                ELSE IF c = downloaderSlot THEN {uploaderSlot} ELSE {}]
  /\ sent = [c \in Conns |->
                IF c = uploaderSlot THEN <<FinalizeHandshake(allowedChars[1])>>
                ELSE IF c = downloaderSlot
                  THEN <<FinalizeHandshake(allowedChars[2]), PipingComplete(up)>>
                ELSE <<>>]
  /\ pairCount = [c \in Conns |-> IF c = uploaderSlot THEN 1 ELSE 0]
  /\ lastReleased = ""
  /\ relay = NewRelay

\* the uploader's client writes one more byte of its payload
uploaderWrite(b) ==
  /\ sock[uploaderSlot] = "open"
  /\ ~relay.fin
  /\ Len(relay.written) < MaxPayload
  /\ relay' = [relay EXCEPT !.written = Append(@, b), !.wire = Append(@, b)]
  /\ UNCHANGED handshakeVars

\* the uploader's client ends its stream (socket.end())
uploaderEnd ==
  /\ sock[uploaderSlot] = "open"
  /\ ~relay.fin
  /\ relay' = [relay EXCEPT !.fin = TRUE]
  /\ UNCHANGED handshakeVars

\* uploader.socket reads the next n bytes: while it flows they are emitted
\* as a 'data' chunk, while it is paused they are buffered, and a full
\* buffer stops the reading
socketData(n) ==
  /\ sock[uploaderSlot] = "open"
  /\ n \in 1..Len(relay.wire)
  /\ LET chunk == SubSeq(relay.wire, 1, n)
         rest == SubSeq(relay.wire, n + 1, Len(relay.wire))
     IN IF relay.flowing
        THEN relay' = pipeOnData([relay EXCEPT !.wire = rest], chunk)
        ELSE /\ Len(relay.readBuf) < HighWaterMark
             /\ relay' = [relay EXCEPT !.wire = rest, !.readBuf = @ \o chunk]
  /\ UNCHANGED handshakeVars

\* the downloader's socket flushes the next n bytes of its buffer; an empty
\* buffer emits 'drain' if a write has asked for it, and finishes the socket
\* if end() has been called
socketFlush(n) ==
  /\ sock[downloaderSlot] = "open"
  /\ ~relay.finished
  /\ n \in 1..Len(relay.writeBuf)
  /\ LET flushed == [relay EXCEPT
                       !.delivered = @ \o SubSeq(relay.writeBuf, 1, n),
                       !.writeBuf = SubSeq(@, n + 1, Len(@))]
     IN relay' =
          IF flushed.writeBuf # <<>> THEN flushed
          ELSE IF flushed.ending THEN [flushed EXCEPT !.finished = TRUE]
          ELSE IF flushed.needDrain THEN pipeOnDrain(flushed)
          ELSE flushed
  /\ UNCHANGED handshakeVars

\* mutant: 'end' is emitted although the paused source still holds bytes
sourceEndEarly ==
  /\ sock[uploaderSlot] = "open" /\ sock[downloaderSlot] = "open"
  /\ relay.piped /\ relay.fin /\ ~relay.ending
  /\ relay.wire = <<>>
  /\ relay' = [relay EXCEPT !.ending = TRUE, !.finished = (relay.writeBuf = <<>>)]
  /\ UNCHANGED handshakeVars

\* uploader.socket emits 'end' once everything before the end of the stream
\* has been emitted: the pipe calls end() on the downloader's socket
sourceEnd ==
  /\ sock[uploaderSlot] = "open" /\ sock[downloaderSlot] = "open"
  /\ relay.piped /\ relay.flowing /\ relay.fin /\ ~relay.ending
  /\ relay.wire = <<>> /\ relay.readBuf = <<>>
  /\ relay' = [relay EXCEPT !.ending = TRUE, !.finished = (relay.writeBuf = <<>>)]
  /\ UNCHANGED handshakeVars

\* one of the two connections closes or fails during the relay: the pipe is
\* taken down and a source left without destination is paused
relayClose(c) ==
  /\ c \in {uploaderSlot, downloaderSlot}
  /\ server = "running"
  /\ sock[c] = "open"
  /\ socketClosed(c)
  /\ relay' = [relay EXCEPT !.piped = FALSE, !.flowing = FALSE,
                            !.back.piped = FALSE, !.back.flowing = FALSE]
  /\ UNCHANGED <<client, allowedChars>>

RelayNext ==
  \/ \E b \in Bytes : uploaderWrite(b)
  \/ uploaderEnd
  \/ \E n \in 1..MaxPayload : socketData(n)
  \/ \E n \in 1..MaxPayload : socketFlush(n)
  \/ sourceEnd
  \/ \E c \in Conns : relayClose(c)

RelaySpec == RelayInit /\ [][RelayNext]_vars

(***************************************************************************)
(* Both directions of the relay, each peer writing at its own pace         *)
(***************************************************************************)
MaxChunk == 1

\* the downloader's client writes one more byte on its connection
downloaderWrite(b) ==
  /\ sock[downloaderSlot] = "open"
  /\ Len(relay.back.written) < MaxPayload
  /\ relay' = [relay EXCEPT !.back.written = Append(@, b),
                            !.back.wire = Append(@, b)]
  /\ UNCHANGED handshakeVars

\* the downloader's socket reads the next n bytes (server.js:168): emitted
\* to the pipe while it flows, buffered up to the mark while it is paused
backData(n) ==
  /\ sock[downloaderSlot] = "open"
  /\ n \in 1..Len(relay.back.wire)
  /\ LET chunk == SubSeq(relay.back.wire, 1, n)
         rest == SubSeq(relay.back.wire, n + 1, Len(relay.back.wire))
     IN IF relay.back.flowing
        THEN relay' = [relay EXCEPT
                         !.back = pipeOnData([@ EXCEPT !.wire = rest], chunk)]
        ELSE /\ Len(relay.back.readBuf) < HighWaterMark
             /\ relay' = [relay EXCEPT !.back.wire = rest,
                                       !.back.readBuf = @ \o chunk]
  /\ UNCHANGED handshakeVars

\* the uploader's socket flushes the next n bytes of its buffer; an empty
\* buffer emits 'drain' if a write has asked for it
backFlush(n) ==
  /\ sock[uploaderSlot] = "open"
  /\ n \in 1..Len(relay.back.writeBuf)
  /\ LET flushed == [relay.back EXCEPT
                       !.delivered = @ \o SubSeq(relay.back.writeBuf, 1, n),
                       !.writeBuf = SubSeq(@, n + 1, Len(@))]
     IN relay' = [relay EXCEPT !.back =
          IF flushed.writeBuf # <<>> THEN flushed
          ELSE IF flushed.needDrain THEN pipeOnDrain(flushed)
          ELSE flushed]
  /\ UNCHANGED handshakeVars

FlowNext ==
  \/ \E b \in Bytes : uploaderWrite(b)
  \/ uploaderEnd
  \/ \E n \in 1..MaxChunk : socketData(n)
  \/ \E n \in 1..MaxChunk : socketFlush(n)
  \/ sourceEnd
  \/ downloaderWrite("x")
  \/ \E n \in 1..MaxChunk : backData(n)
  \/ \E n \in 1..MaxChunk : backFlush(n)
  \/ \E c \in Conns : relayClose(c)

\* a socket whose connection is open does flush what it has buffered
FlowSpec ==
  /\ RelayInit
  /\ [][FlowNext]_vars
  /\ \A n \in 1..MaxChunk : WF_vars(socketFlush(n)) /\ WF_vars(backFlush(n))

(***************************************************************************)
(* The end of a relay: graceful ends, transport errors and closes          *)
(***************************************************************************)
TeardownMessages ==
  { Upload(Str("a.txt"), Str("file"), Num(1), Undef) }
  \cup { Download(Str(k), Undef) : k \in Codes }

\* the peer ends its stream: the socket emits 'end'. The pipes of
\* server.js:167-168 call end() on the sockets this one is piped into, and
\* the socket itself, not being half-open, ends its own writing side.
peerEnd(c) ==
  /\ server = "running"
  /\ sock[c] = "open"
  /\ sock' = [d \in Conns |->
                IF d = c \/ (d \in pipes[c] /\ sock[d] = "open")
                THEN "ended" ELSE sock[d]]
  /\ UNCHANGED <<server, codes, transferInfo, dataListener, closeObserver,
                 errorListener, pipes, sent, pairCount, lastReleased, relay,
                 client, allowedChars>>

\* an ended or destroyed socket emits 'close' (an ended socket once its
\* peer, ended in turn, has answered the end)
closeEnded(c) ==
  /\ server = "running"
  /\ sock[c] \in {"ended", "destroyed"}
  /\ socketClosed(c)
  /\ UNCHANGED <<relay, client, allowedChars>>

TeardownNext ==
  \/ \E c \in Conns : secureConnection(c)
  \/ \E c \in Conns : \E data \in TeardownMessages : handshake(c, data)
  \/ \E c \in Conns : peerEnd(c)
  \/ \E c \in Conns : closeEnded(c)
  \/ \E c \in Conns : transportError(c)

\* a socket that was ended or destroyed does close; nothing makes a client
\* end its connection or the network fail
TeardownSpec ==
  Init /\ [][TeardownNext]_vars /\ \A c \in Conns : WF_vars(closeEnded(c))

(***************************************************************************)
(* The client (the command line program): its side of the handshake        *)
(***************************************************************************)
serverVars == <<server, codes, transferInfo, sock, dataListener,
                closeObserver, errorListener, pipes, sent, pairCount,
                lastReleased, relay, allowedChars>>

\* state:    "awaitCode" | "awaitPiping" | "awaitReady" | "receiving" |
\*           "uploading" | "exited" (process.exit(1))
\* role:     "upload" | "download" (args.upload / args.download)
\* written:  what the client wrote on its socket after its intent
\* reported: what it printed with console.error
\* received: history: the chunks its 'data' listeners were given
NewClient(role) ==
  [state |-> "awaitCode", role |-> role, written |-> <<>>,
   reported |-> <<>>, received |-> <<>>]

\* a chunk that holds the JSON text of a record, and one that holds other text
JsonChunk(record) == [t |-> "json", v |-> record]
TextChunk(text) == [t |-> "text", s |-> text]

\* what a client's socket can deliver: the server's replies, and whatever
\* the relay forwards from the other client
ClientChunks ==
  { JsonChunk(FinalizeHandshake(k)) : k \in Codes }
  \cup { JsonChunk(PipingComplete(Upload(Str("a.txt"), Str("file"), Num(1), Undef))) }
  \cup { JsonChunk(ErrorReply(m)) : m \in {"Download ID not found", "Download ID busy"} }
  \cup { TextChunk("READY"), TextChunk("null"), TextChunk("x") }

\* response.error is truthy
responseError(response) == "error" \in DOMAIN response /\ response.error # ""

responseSeq(response) == IF "seq" \in DOMAIN response THEN response.seq ELSE ""

\* console.error(message); process.exit(1)
clientExit(cl, message) ==
  [cl EXCEPT !.state = "exited", !.reported = Append(@, message)]

\* mutant: an uploader that has its code starts the upload at once
clientHandshakeNoWait(cl, chunk) ==
  IF chunk.t # "json" THEN clientExit(cl, "Failed to parse handshake response")
  ELSE IF responseError(chunk.v) THEN clientExit(cl, chunk.v.error)
  ELSE IF responseSeq(chunk.v) # "FINALIZE_HANDSHAKE"
    THEN clientExit(cl, "Invalid response during handshake")
  ELSE [cl EXCEPT !.state = IF cl.role = "download" THEN "awaitPiping"
                            ELSE "uploading"]

\* the once('data') listener of handshake() (part_002:58-77) with the
\* callback of the tls.connect callback (part_002:305-322)
clientHandshake(cl, chunk) ==
  IF chunk.t # "json" THEN clientExit(cl, "Failed to parse handshake response")
  ELSE IF responseError(chunk.v) THEN clientExit(cl, chunk.v.error)
  ELSE IF responseSeq(chunk.v) # "FINALIZE_HANDSHAKE"
    THEN clientExit(cl, "Invalid response during handshake")
  ELSE [cl EXCEPT !.state = IF cl.role = "download" THEN "awaitPiping"
                            ELSE "awaitReady"]

\* the callback given to waitPipingCompletion (part_002:313-316):
\* socket.write('READY'), then prepareDownload(socket, info). With no
\* info.fileSize, filesize(undefined) (a library) may throw into the catch
\* of waitPipingCompletion; both outcomes are kept.
pipingCallback(cl, info) ==
  LET ready == [cl EXCEPT !.written = Append(@, "READY")] IN
  IF "fileSize" \in DOMAIN info
  THEN { [ready EXCEPT !.state = "receiving"] }
  ELSE { [ready EXCEPT !.state = "receiving"],
         clientExit(ready, "Failed to parse handshake response") }

\* the once('data') listener of waitPipingCompletion (part_002:110-131)
waitPipingCompletion(cl, chunk) ==
  IF chunk.t # "json"
    THEN { clientExit(cl, "Failed to parse handshake response") }
  ELSE IF responseError(chunk.v) THEN pipingCallback(cl, chunk.v)
  ELSE IF responseSeq(chunk.v) # "PIPING_COMPLETE"
    THEN { clientExit(cl, "Invalid response during handshake") }
  ELSE pipingCallback(cl, chunk.v)

\* the once('data') listener of waitDownloaderReady (part_002:286-295);
\* upload(socket) starts on READY
waitDownloaderReady(cl, chunk) ==
  IF chunk = TextChunk("READY") THEN [cl EXCEPT !.state = "uploading"]
  ELSE clientExit(cl, "Invalid response while waiting for downloader to be ready")

\* the client has connected and sent its intent
ClientInit ==
  /\ ServerInit(configuredChars)
  /\ \E role \in {"upload", "download"} : client = NewClient(role)

\* the socket delivers a chunk to the listener of the current waiting state
clientData(chunk) ==
  /\ client.state \in {"awaitCode", "awaitPiping", "awaitReady"}
  /\ \E next \in
       CASE client.state = "awaitCode" -> { clientHandshake(client, chunk) }
         [] client.state = "awaitPiping" -> waitPipingCompletion(client, chunk)
         [] client.state = "awaitReady" -> { waitDownloaderReady(client, chunk) } :
       client' = [next EXCEPT !.received = Append(@, chunk)]
  /\ UNCHANGED serverVars

\* prepareDownload's 'data' listener (part_002:155-169): payload for the file
clientPayload(b) ==
  /\ client.state = "receiving"
  /\ Len(client.received) < MaxPayload + 2
  /\ client' = [client EXCEPT !.received = Append(@, TextChunk(b))]
  /\ UNCHANGED serverVars

ClientNext ==
  \/ \E chunk \in ClientChunks : clientData(chunk)
  \/ \E b \in Bytes : clientPayload(b)

ClientSpec == ClientInit /\ [][ClientNext]_vars

(***************************************************************************)
(* One session end to end: both clients, the server, the bytes between     *)
(***************************************************************************)
\* the archive the uploader's client sends
Payload == [i \in 1..MaxPayload |-> IF i % 2 = 1 THEN "x" ELSE "y"]

\* the downloader's intent names the code the uploader was given
DownloadIntent == Download(Str(configuredChars[1]), Undef)

serverOwnVars == <<server, codes, transferInfo, sock, dataListener,
                   closeObserver, errorListener, pipes, sent, pairCount,
                   lastReleased, allowedChars>>

\* up, down:        the two client processes (down.state is "done" once the
\*                  'close' listener of prepareDownload has run)
\* upSeen, downSeen: how much of what was put on its connection each
\*                  client's socket has emitted
\* upload:          readStream (wire: the part of the archive not yet read)
\*                  into the uploader's socket (writeBuf), part_002:247-276
\* download:        the downloader's socket (readBuf while paused) into
\*                  writeStream (writeBuf), then the file (delivered),
\*                  part_002:154-169
\* failed:          history: the slots whose connection broke
NewSession ==
  [up |-> NewClient("upload"), down |-> NewClient("download"),
   upSeen |-> 0, downSeen |-> 0, upload |-> NoPipe, download |-> NoPipe,
   failed |-> {}]

\* the uploader's intent was accepted and answered; the downloader has
\* connected and sent its intent
SessionInit ==
  LET up == [Upload(Str("a.txt"), Str("file"), Num(1), Undef)
               EXCEPT !.code = Str(configuredChars[1]), !.socket = uploaderSlot]
      both == {uploaderSlot, downloaderSlot}
  IN
  /\ allowedChars = configuredChars
  /\ server = "running"
  /\ codes = [k \in {configuredChars[1]} |-> uploaderSlot]
  /\ transferInfo = [c \in Conns |-> IF c = uploaderSlot THEN up ELSE NoInfo]
  /\ sock = [c \in Conns |-> IF c \in both THEN "open" ELSE "closed"]
  /\ dataListener = [c \in Conns |-> c = downloaderSlot]
  /\ closeObserver = [c \in Conns |-> c = uploaderSlot]
  /\ errorListener = [c \in Conns |-> FALSE]
  /\ pipes = [c \in Conns |-> {}]
  /\ sent = [c \in Conns |->
               IF c = uploaderSlot THEN <<FinalizeHandshake(configuredChars[1])>>
               ELSE <<>>]
  /\ pairCount = [c \in Conns |-> 0]
  /\ lastReleased = ""
  /\ relay = NoRelay
  /\ client = NewSession

\* the server handles the downloader's intent and accepts it: the pairing
sessionPairing ==
  /\ server = "running"
  /\ sock[downloaderSlot] = "open"
  /\ dataListener[downloaderSlot]
  /\ handshakeError(DownloadIntent) = NoError
  /\ \E code \in genUniqueCode(codeSize) :
       acceptIntent(downloaderSlot, DownloadIntent, code)
  /\ relay' = NewRelay
  /\ UNCHANGED <<client, allowedChars>>

\* the server handles the downloader's intent and rejects it
sessionRejected ==
  /\ server = "running"
  /\ sock[downloaderSlot] = "open"
  /\ dataListener[downloaderSlot]
  /\ handshakeError(DownloadIntent) # NoError
  /\ handshakeFailed(downloaderSlot, DownloadIntent, handshakeError(DownloadIntent))

\* what was put on the connection of slot c, as chunks: the server's own
\* replies, then what the relay forwarded from the other side
stream(c) ==
  LET forwarded == IF c = downloaderSlot THEN relay.delivered
                   ELSE relay.back.delivered
  IN [i \in 1..(Len(sent[c]) + Len(forwarded)) |->
        IF i <= Len(sent[c]) THEN JsonChunk(sent[c][i])
        ELSE TextChunk(forwarded[i - Len(sent[c])])]

\* the text of a chunk that goes to the file
chunkText(chunk) == IF chunk.t = "text" THEN chunk.s ELSE "{}"

\* a client's socket emits 'data' to the once('data') listener of its waiting
\* state: the next thing put on its connection, or the next two in one chunk
\* (which is then neither a JSON text nor 'READY'). A downloader that goes on
\* has written READY and called prepareDownload; an uploader that goes on
\* after READY has called upload.
sessionClientData(c, take) ==
  LET cl == IF c = uploaderSlot THEN client.up ELSE client.down
      seen == IF c = uploaderSlot THEN client.upSeen ELSE client.downSeen
      chunk == IF take = 1 THEN stream(c)[seen + 1] ELSE TextChunk("coalesced")
  IN
  /\ c \in {uploaderSlot, downloaderSlot}
  /\ sock[c] # "closed"
  /\ cl.state \in {"awaitCode", "awaitPiping", "awaitReady"}
  /\ seen + take <= Len(stream(c))
  /\ \E next \in
       CASE cl.state = "awaitCode" -> { clientHandshake(cl, chunk) }
         [] cl.state = "awaitPiping" -> waitPipingCompletion(cl, chunk)
         [] cl.state = "awaitReady" -> { waitDownloaderReady(cl, chunk) } :
       LET after == [next EXCEPT !.received = Append(@, chunk)]
           wrote == SubSeq(next.written, Len(cl.written) + 1, Len(next.written))
       IN
       /\ client' =
            IF c = uploaderSlot
            THEN [client EXCEPT
                    !.up = after, !.upSeen = seen + take,
                    !.upload = IF after.state = "uploading"
                               THEN [NewPipe EXCEPT !.wire = Payload] ELSE @]
            ELSE [client EXCEPT
                    !.down = after, !.downSeen = seen + take,
                    !.download = IF after.state = "receiving" THEN NewPipe ELSE @]
       /\ relay' = IF c = downloaderSlot
                   THEN [relay EXCEPT !.back.written = @ \o wrote,
                                      !.back.wire = @ \o wrote]
                   ELSE relay
  /\ UNCHANGED serverOwnVars

\* readStream emits the next n bytes of the archive (part_002:252-265):
\* socket.write(chunk), and a pause until 'drain' if it returns false; while
\* paused the stream reads ahead up to its mark
uploadData(n) ==
  /\ client.up.state = "uploading"
  /\ n \in 1..Len(client.upload.wire)
  /\ LET chunk == SubSeq(client.upload.wire, 1, n)
         rest == SubSeq(client.upload.wire, n + 1, Len(client.upload.wire))
     IN IF client.upload.flowing
        THEN client' = [client EXCEPT
                          !.upload = pipeOnData([@ EXCEPT !.wire = rest], chunk)]
        ELSE /\ Len(client.upload.readBuf) < HighWaterMark
             /\ client' = [client EXCEPT !.upload.wire = rest,
                                         !.upload.readBuf = @ \o chunk]
  /\ UNCHANGED <<serverOwnVars, relay>>

\* readStream emits 'end' (part_002:267-276): socket.end()
uploadEnd ==
  /\ client.up.state = "uploading"
  /\ client.upload.flowing /\ ~client.upload.ending
  /\ client.upload.wire = <<>> /\ client.upload.readBuf = <<>>
  /\ client' = [client EXCEPT
                  !.upload.ending = TRUE,
                  !.upload.finished = (client.upload.writeBuf = <<>>)]
  /\ relay' = [relay EXCEPT !.fin = (client.upload.writeBuf = <<>>)]
  /\ UNCHANGED serverOwnVars

\* the uploader's socket puts the next n bytes of its buffer on the
\* connection; an empty buffer emits 'drain' if a write has asked for it, and
\* ends the stream if end() has been called
uploadFlush(n) ==
  /\ sock[uploaderSlot] = "open"
  /\ ~client.upload.finished
  /\ n \in 1..Len(client.upload.writeBuf)
  /\ LET out == SubSeq(client.upload.writeBuf, 1, n)
         flushed == [client.upload EXCEPT
                       !.delivered = @ \o out,
                       !.writeBuf = SubSeq(@, n + 1, Len(@))]
         stage == IF flushed.writeBuf # <<>> THEN flushed
                  ELSE IF flushed.ending THEN [flushed EXCEPT !.finished = TRUE]
                  ELSE IF flushed.needDrain THEN pipeOnDrain(flushed)
                  ELSE flushed
     IN /\ client' = [client EXCEPT !.upload = stage]
        /\ relay' = [relay EXCEPT !.written = @ \o out, !.wire = @ \o out,
                                  !.fin = stage.finished]
  /\ UNCHANGED serverOwnVars

\* the downloader's socket reads the next n bytes put on its connection
\* (part_002:155-169): emitted to the listener, which writes them to
\* writeStream and pauses the socket until 'drain' if that returns false;
\* buffered up to the mark while the socket is paused
downloadData(n) ==
  /\ client.down.state = "receiving"
  /\ sock[downloaderSlot] = "open"
  /\ n \in 1..(Len(stream(downloaderSlot)) - client.downSeen)
  /\ LET chunk == [i \in 1..n |->
                     chunkText(stream(downloaderSlot)[client.downSeen + i])]
     IN IF client.download.flowing
        THEN client' = [client EXCEPT !.downSeen = @ + n,
                                      !.download = pipeOnData(@, chunk)]
        ELSE /\ Len(client.download.readBuf) < HighWaterMark
             /\ client' = [client EXCEPT !.downSeen = @ + n,
                                         !.download.readBuf = @ \o chunk]
  /\ UNCHANGED <<serverOwnVars, relay>>

\* writeStream writes the next n bytes of its buffer to the file; an empty
\* buffer emits 'drain' if a write has asked for it
downloadFlush(n) ==
  /\ client.down.state \in {"receiving", "done"}
  /\ n \in 1..Len(client.download.writeBuf)
  /\ LET flushed == [client.download EXCEPT
                       !.delivered = @ \o SubSeq(client.download.writeBuf, 1, n),
                       !.writeBuf = SubSeq(@, n + 1, Len(@))]
     IN client' = [client EXCEPT !.download =
          IF flushed.writeBuf # <<>> THEN flushed
          ELSE IF flushed.needDrain THEN pipeOnDrain(flushed)
          ELSE flushed]
  /\ UNCHANGED <<serverOwnVars, relay>>

\* the downloader's socket emits 'close' (part_002:171-200): after the end of
\* the stream, which it emits once all that came before was emitted, or when
\* the connection broke
downloadClose ==
  /\ client.down.state = "receiving"
  /\ \/ /\ sock[downloaderSlot] = "open"
        /\ relay.finished
        /\ client.downSeen = Len(stream(downloaderSlot))
        /\ client.download.flowing /\ client.download.readBuf = <<>>
     \/ downloaderSlot \in client.failed
  /\ client' = [client EXCEPT !.down.state = "done"]
  /\ UNCHANGED <<serverOwnVars, relay>>

\* the server's socket of slot c closes because its client has gone: the
\* uploader's after the end of its stream, either one's after its process
\* has exited or its own socket has closed
sessionGone(c) ==
  /\ \/ c = uploaderSlot /\ (relay.ending \/ client.up.state = "exited")
     \/ c = downloaderSlot /\ client.down.state \in {"done", "exited"}
  /\ relayClose(c)

\* the connection of slot c breaks
sessionFault(c) ==
  /\ c \in {uploaderSlot, downloaderSlot}
  /\ server = "running"
  /\ sock[c] = "open"
  /\ socketClosed(c)
  /\ relay' = [relay EXCEPT !.piped = FALSE, !.flowing = FALSE,
                            !.back.piped = FALSE, !.back.flowing = FALSE]
  /\ client' = [client EXCEPT !.failed = @ \cup {c}]
  /\ UNCHANGED allowedChars

\* the steps that handlers and sockets take by themselves
SessionProgress ==
  \/ sessionPairing
  \/ sessionRejected
  \/ \E c \in Conns : \E take \in 1..2 : sessionClientData(c, take)
  \/ \E n \in 1..MaxChunk : uploadData(n)
  \/ uploadEnd
  \/ \E n \in 1..MaxChunk : uploadFlush(n)
  \/ \E n \in 1..MaxChunk : socketData(n)
  \/ \E n \in 1..MaxChunk : socketFlush(n)
  \/ sourceEnd
  \/ \E n \in 1..MaxChunk : backData(n)
  \/ \E n \in 1..MaxChunk : backFlush(n)
  \/ \E n \in 1..MaxChunk : downloadData(n)
  \/ \E n \in 1..MaxChunk : downloadFlush(n)
  \/ downloadClose
  \/ \E c \in Conns : sessionGone(c)

SessionNext ==
  \/ SessionProgress
  \/ \E c \in Conns : sessionFault(c)

\* pending events are handled and open sockets move their bytes; nothing
\* makes a connection break
SessionSpec == SessionInit /\ [][SessionNext]_vars /\ WF_vars(SessionProgress)

(***************************************************************************)
(* Vocabulary of the claims                                                *)
(***************************************************************************)
\* this step is the once('data') handler of slot c
Handled(c) == dataListener[c] /\ ~dataListener'[c] /\ sock'[c] # "closed"

\* the handler of slot c accepted its request in this step
Accepted(c) == Handled(c) /\ closeObserver'[c]

\* the handler of slot c rejected its request in this step
Rejected(c) == Handled(c) /\ sock'[c] = "destroyed"

\* the request slot c handled in this step, as parsed
Request(c) == transferInfo'[c]

IsDownload(info) ==
  info.t = "object" /\ info.transferType = Str("download") /\ Truthy(info.clientCode)

IsValidUpload(info) ==
  /\ info.t = "object" /\ info.transferType = Str("upload")
  /\ Truthy(info.fileName) /\ Truthy(info.fileType)

\* the request names a registered session of role upload
NamesUpload(info) ==
  /\ IsDownload(info)
  /\ codesHas(info.clientCode.s)
  /\ transferInfo[codes[info.clientCode.s]].transferType = Str("upload")

\* the session a download request names, before the step
Named(info) == codes[info.clientCode.s]

LastSent(c) == sent[c][Len(sent[c])]

GotPipingComplete(c) ==
  /\ sent[c] # <<>>
  /\ "seq" \in DOMAIN LastSent(c)
  /\ LastSent(c).seq = "PIPING_COMPLETE"

\* slot c holds an accepted session whose connection is open
Live(c) == sock[c] = "open" /\ closeObserver[c]

\* every other slot is exactly as it was
OthersUntouched(c) ==
  \A d \in Conns \ {c} :
    /\ transferInfo'[d] = transferInfo[d] /\ sock'[d] = sock[d]
    /\ sent'[d] = sent[d] /\ pipes'[d] = pipes[d]
    /\ closeObserver'[d] = closeObserver[d] /\ dataListener'[d] = dataListener[d]
    /\ errorListener'[d] = errorListener[d] /\ pairCount'[d] = pairCount[d]

\* the strings of the given length over the given characters
RECURSIVE WordsOver(_, _)
WordsOver(chars, n) ==
  IF n = 0 THEN {""}
  ELSE { w \o chars[i] : w \in WordsOver(chars, n - 1), i \in 1..Len(chars) }

(***************************************************************************)
(* C1: single consumer                                                     *)
(***************************************************************************)
C1_AtMostOnePaired ==
  \A u \in Conns :
    /\ pairCount[u] <= 1
    /\ Cardinality({d \in Conns : sock[d] = "open" /\ GotPipingComplete(d)
                                  /\ u \in pipes[d]}) <= 1
    /\ (Live(u) /\ transferInfo[u].transferType = Str("upload")
          => (Truthy(transferInfo[u].busy) <=> pairCount[u] = 1))

C1_BusyStep ==
  \A c \in Conns :
    /\ (Handled(c) /\ NamesUpload(Request(c))
          /\ Truthy(transferInfo[Named(Request(c))].busy))
         => /\ sent'[c] = <<ErrorReply("Download ID busy")>>
            /\ sock'[c] = "destroyed"
            /\ pairCount' = pairCount
    /\ (Handled(c) /\ GotPipingComplete(c)')
         => /\ NamesUpload(Request(c))
            /\ ~Truthy(transferInfo[Named(Request(c))].busy)
            /\ Truthy(transferInfo'[Named(Request(c))].busy)
            /\ pairCount[Named(Request(c))] = 0
            /\ pairCount'[Named(Request(c))] = 1

C2_NoSharedCode ==
  \A c \in Conns :
    Live(c) =>
      /\ codesHas(toString(transferInfo[c].code))
      /\ codes[toString(transferInfo[c].code)] = c
      /\ \A d \in Conns \ {c} :
           Live(d) => transferInfo[d].code # transferInfo[c].code

C2_AllocationStep ==
  \A c \in Conns :
    Accepted(c) =>
      /\ ~codesHas(toString(Request(c).code))
      /\ toString(Request(c).code) \in DOMAIN codes'
      /\ codes'[toString(Request(c).code)] = c
      /\ \A k \in DOMAIN codes : k \in DOMAIN codes' /\ codes'[k] = codes[k]

\* C2: no two live sessions hold the same code and each live session is the
\* one its code maps to; the code a handler allocates is absent from the
\* registry when it is allocated and registered, without disturbing another
\* entry, by the end of the same handler.
C2_UniqueCodes == []C2_NoSharedCode /\ [][C2_AllocationStep]_vars

\* two sessions are live at once, under different codes
C2_Witness ==
  \E c, d \in Conns :
    /\ c # d /\ Live(c) /\ Live(d)
    /\ transferInfo[c].code # transferInfo[d].code

(***************************************************************************)
(* C3: release on close                                                    *)
(***************************************************************************)
C3_CloseStep ==
  \A c \in Conns :
    /\ (closeObserver[c] /\ sock[c] # "closed" /\ sock'[c] = "closed")
         => /\ toString(transferInfo[c].code) \notin DOMAIN codes'
            /\ toString(transferInfo[c].code) \in genCode(codeSize)
            /\ lastReleased' = toString(transferInfo[c].code)
    /\ (Handled(c) /\ IsDownload(Request(c)) /\ ~codesHas(Request(c).clientCode.s))
         => sent'[c] = <<ErrorReply("Download ID not found")>>

C3_Allocatable == lastReleased # "" => lastReleased \in genUniqueCode(codeSize)

\* C3: the close of the connection that owns a registered session removes
\* its code from the registry in that very step; from then on the allocator
\* may return that code, and a download request that presents a code the
\* registry does not hold is rejected with 'Download ID not found'.
C3_ReleaseOnClose == []C3_Allocatable /\ [][C3_CloseStep]_vars

\* an upload session was closed before any pairing and its code is free again
C3_Witness ==
  /\ lastReleased # ""
  /\ ~codesHas(lastReleased)
  /\ \A c \in Conns : pairCount[c] = 0 /\ pipes[c] = {}

(***************************************************************************)
(* C4: role hiding                                                         *)
(***************************************************************************)
C4_NotFoundStep ==
  \A c \in Conns :
    (Handled(c) /\ IsDownload(Request(c)) /\ ~NamesUpload(Request(c)))
      => /\ sent'[c] = <<ErrorReply("Download ID not found")>>
         /\ sock'[c] = "destroyed"
         /\ codes' = codes
         /\ OthersUntouched(c)

\* C4: a download request for a code the registry does not hold and one for
\* a code registered to a session of another role get the same reply,
\* {error: 'Download ID not found'}, and the same effects: the connection is
\* destroyed and the registry and every session are unchanged.
C4_RoleHiding == [][C4_NotFoundStep]_vars

\* a request naming the code of a session that is not an upload was rejected
C4_Witness ==
  \E c \in Conns :
    /\ sock[c] = "destroyed"
    /\ sent[c] = <<ErrorReply("Download ID not found")>>
    /\ IsDownload(transferInfo[c])
    /\ codesHas(transferInfo[c].clientCode.s)
    /\ transferInfo[codes[transferInfo[c].clientCode.s]].transferType
         = Str("download")

(***************************************************************************)
(* C5: password gating                                                     *)
(***************************************************************************)
\* the handler of slot c paired it with session u in this step
PairedNow(c, u) ==
  /\ Accepted(c)
  /\ GotPipingComplete(c)'
  /\ c \in pipes'[u]
  /\ Truthy(transferInfo'[u].busy)

\* the step handles a download request that names a session of role upload
\* which is not busy
GatedRequest(c) ==
  /\ Handled(c)
  /\ NamesUpload(Request(c))
  /\ ~Truthy(transferInfo[Named(Request(c))].busy)

C5_ExactStep ==
  \A c \in Conns :
    GatedRequest(c) =>
      LET u == Named(Request(c)) IN
      /\ PairedNow(c, u)
           <=> \/ ~Truthy(transferInfo[u].password)
               \/ Request(c).password = transferInfo[u].password
      /\ ~PairedNow(c, u) => (Rejected(c) /\ ~Truthy(transferInfo'[u].busy))

\* C5 as stated: a session with a password pairs with a request exactly when
\* the request's password equals the session's; without a password or with a
\* different one the request is not paired and the session stays not busy; a
\* session without a password pairs with every request.
C5_EqualPasswordGating == [][C5_ExactStep]_vars

C5_TextStep ==
  \A c \in Conns :
    GatedRequest(c) =>
      LET u == Named(Request(c)) IN
      /\ PairedNow(c, u)
           <=> \/ ~Truthy(transferInfo[u].password)
               \/ /\ Truthy(Request(c).password)
                  /\ toString(Request(c).password) = toString(transferInfo[u].password)
      /\ ~PairedNow(c, u) => (Rejected(c) /\ ~Truthy(transferInfo'[u].busy))

\* C5 as amended: a session with a non-empty password pairs with a request
\* exactly when the request carries a password whose string form is the
\* string form of the session's (the number 1 and the string "1" match);
\* otherwise the request is rejected and the session stays not busy; a
\* session whose password is absent or empty pairs with every request.
C5_TextPasswordGating == [][C5_TextStep]_vars

\* a downloader that supplied the string "1" is paired with a session whose
\* password is the number 1
C5_Witness ==
  \E c, u \in Conns :
    /\ Live(c) /\ Live(u) /\ c \in pipes[u] /\ GotPipingComplete(c)
    /\ transferInfo[u].password = Num(1)
    /\ transferInfo[c].password = Str("1")

(***************************************************************************)
(* C6: relay fidelity                                                      *)
(***************************************************************************)
IsPrefix(a, b) == Len(a) <= Len(b) /\ SubSeq(b, 1, Len(a)) = a

\* C6: at every moment the bytes delivered to the downloader's connection
\* are a prefix of what the uploader has written since the pairing; while
\* the pipe stands every written byte is delivered or waits, in order, in
\* exactly one buffer; and when the relay completes the delivered bytes are
\* the written bytes.
C6_RelayFidelity ==
  /\ IsPrefix(relay.delivered, relay.written)
  /\ relay.piped =>
       relay.delivered \o relay.writeBuf \o relay.readBuf \o relay.wire
         = relay.written
  /\ relay.finished => relay.delivered = relay.written

\* a payload of full length was relayed to the end although the pipe had to
\* pause the uploader's side on the way
C6_Witness ==
  /\ relay.finished
  /\ relay.paused
  /\ Len(relay.written) = MaxPayload
  /\ relay.delivered = relay.written

(***************************************************************************)
(* C7: the reply to a valid upload intent                                  *)
(***************************************************************************)
C7_UploadStep ==
  \A c \in Conns :
    (Handled(c) /\ IsValidUpload(Request(c)))
      => \E k \in WordsOver(allowedChars, codeSize) :
           /\ Len(k) = codeSize
           /\ sent'[c] = <<FinalizeHandshake(k)>>
           /\ Request(c).code = Str(k)
           /\ k \in DOMAIN codes' /\ codes'[k] = c
           /\ closeObserver'[c]
           /\ sock'[c] = "open"

C7_OneReply ==
  \A c \in Conns :
    (Live(c) /\ transferInfo[c].transferType = Str("upload"))
      => sent[c] = <<FinalizeHandshake(toString(transferInfo[c].code))>>

\* C7: a valid upload intent is answered with one FINALIZE_HANDSHAKE whose
\* code has the configured length over the configured alphabet; when the
\* handler ends the session is registered under that code and the close
\* observer is installed, and no further message is written to an uploader.
C7_UploadReply == []C7_OneReply /\ [][C7_UploadStep]_vars

\* an uploader holds its code and its session is registered
C7_Witness ==
  \E c \in Conns :
    /\ Live(c) /\ IsValidUpload(transferInfo[c])
    /\ sent[c] = <<FinalizeHandshake(toString(transferInfo[c].code))>>
    /\ codes[toString(transferInfo[c].code)] = c

(***************************************************************************)
(* C8: the replies to an accepted download request                         *)
(***************************************************************************)
C8_DownloadStep ==
  \A c \in Conns :
    (Accepted(c) /\ IsDownload(Request(c)))
      => /\ NamesUpload(Request(c))
         /\ toString(Request(c).code) # Request(c).clientCode.s
         /\ ~codesHas(toString(Request(c).code))
         /\ sent'[c] =
              << [seq |-> "FINALIZE_HANDSHAKE", code |-> toString(Request(c).code)],
                 [seq |-> "PIPING_COMPLETE",
                  fileType |-> transferInfo[Named(Request(c))].fileType,
                  fileName |-> transferInfo[Named(Request(c))].fileName,
                  fileSize |-> transferInfo[Named(Request(c))].fileSize] >>

C8_TwoReplies ==
  \A c \in Conns :
    (Live(c) /\ IsDownload(transferInfo[c]))
      => /\ Len(sent[c]) = 2
         /\ sent[c][1] = FinalizeHandshake(toString(transferInfo[c].code))
         /\ sent[c][2].seq = "PIPING_COMPLETE"

\* C8: an accepted download request is answered with FINALIZE_HANDSHAKE
\* carrying a fresh code, different from the code it presented, and then
\* with one PIPING_COMPLETE whose fileType, fileName and fileSize are those
\* of the upload session it named; nothing else is written afterwards.
C8_DownloadReplies == []C8_TwoReplies /\ [][C8_DownloadStep]_vars

\* a downloader paired with the session of the second upload intent
C8_Witness ==
  \E c \in Conns :
    /\ Live(c) /\ IsDownload(transferInfo[c])
    /\ Len(sent[c]) = 2
    /\ sent[c][2] = [seq |-> "PIPING_COMPLETE", fileType |-> Str("directory"),
                     fileName |-> Str("b.txt"), fileSize |-> Num(2)]

(***************************************************************************)
(* C9: a rejected request changes nothing                                  *)
(***************************************************************************)
C9_RejectStep ==
  \A c \in Conns :
    Rejected(c)
      => /\ codes' = codes
         /\ OthersUntouched(c)
         /\ \E m \in {"Unexpected token in JSON", "Cannot read properties of null",
                      "Missing transfer type", "Missing file name or type",
                      "Missing client code", "Download ID not found",
                      "Download ID busy", "Password does not match",
                      "Input buffers must have the same byte length"} :
              sent'[c] = <<ErrorReply(m)>>
         /\ ~closeObserver'[c] /\ pipes'[c] = {} /\ pairCount'[c] = 0
         /\ server' = server

\* C9: a rejected request leaves the registry as it was (no entry added or
\* removed, no busy flag changed) and every other session untouched; its
\* effects are one error reply and the destruction of its own connection.
C9_RejectedFrame == [][C9_RejectStep]_vars

\* a download of a code the registry does not hold was rejected while
\* another session stays registered
C9_Witness ==
  \E c, d \in Conns :
    /\ c # d /\ Live(d)
    /\ sock[c] = "destroyed"
    /\ sent[c] = <<ErrorReply("Download ID not found")>>
    /\ IsDownload(transferInfo[c])
    /\ ~codesHas(transferInfo[c].clientCode.s)

(***************************************************************************)
(* C10: transport errors                                                   *)
(***************************************************************************)
\* C10: a transport error on a server-side connection, in whatever phase,
\* never ends the server process.
C10_ServerSurvives == server # "crashed"

(***************************************************************************)
(* C11: the reason of a rejection because of the password                  *)
(***************************************************************************)
C11_ReasonStep ==
  \A c \in Conns :
    (GatedRequest(c) /\ Rejected(c))
      => sent'[c] = <<ErrorReply("Password does not match")>>

\* C11: a download request that names an upload session which is not busy
\* and is rejected (that is, rejected because of the password, omitted or
\* different, of whatever length) gets the reason 'Password does not match'.
C11_OnePasswordReason == [][C11_ReasonStep]_vars

(***************************************************************************)
(* C12: the end of a relay releases the upload session                     *)
(***************************************************************************)
\* slot u holds a registered upload session that was paired and whose
\* downloader is gone
Orphaned(u) ==
  /\ sock[u] # "closed" /\ closeObserver[u]
  /\ transferInfo[u].transferType = Str("upload")
  /\ codesHas(toString(transferInfo[u].code))
  /\ pairCount[u] = 1
  /\ pipes[u] = {}

C12_UploaderCloseStep ==
  \A u \in Conns :
    (closeObserver[u] /\ pairCount[u] = 1 /\ sock[u] # "closed" /\ sock'[u] = "closed")
      => toString(transferInfo[u].code) \notin DOMAIN codes'

\* C12: the close of the uploader's connection during a relay removes the
\* upload session's code, and so does, in the end, the close of the
\* downloader's connection, by an end or by an error: no paired session
\* stays registered once its downloader is gone.
C12_RelayCloseReleases ==
  /\ [][C12_UploaderCloseStep]_vars
  /\ \A u \in Conns :
       (server = "running" /\ Orphaned(u)) ~> (server # "running" \/ ~Orphaned(u))

(***************************************************************************)
(* C13: the roles of the registry's entries                                *)
(***************************************************************************)
\* C13: every entry of the registry is a session of role upload; neither an
\* accepted download request nor an intent of another role is registered.
C13_OnlyUploadsRegistered ==
  \A k \in DOMAIN codes : transferInfo[codes[k]].transferType = Str("upload")

(***************************************************************************)
(* C14: a session is registered not busy                                   *)
(***************************************************************************)
C14_RegistrationStep ==
  \A c \in Conns :
    /\ (Accepted(c) /\ IsValidUpload(Request(c)))
         => ~Truthy(transferInfo'[c].busy)
    /\ (Handled(c) /\ NamesUpload(Request(c)) /\ pairCount[Named(Request(c))] = 0)
         => sent'[c] # <<ErrorReply("Download ID busy")>>

\* C14: a session registered from an upload intent is not busy when it is
\* registered, whatever fields the intent carries, and a download request
\* for a session that was never paired is not rejected as busy.
C14_RegisteredNotBusy == [][C14_RegistrationStep]_vars

(***************************************************************************)
(* C15: the busy flag only rises                                           *)
(***************************************************************************)
\* the session of slot u lives through this step
Lives(u) == closeObserver[u] /\ closeObserver'[u]

C15_BusyStep ==
  \A u \in Conns :
    /\ (Lives(u) /\ transferInfo'[u].busy # transferInfo[u].busy)
         => /\ ~Truthy(transferInfo[u].busy)
            /\ Truthy(transferInfo'[u].busy)
            /\ \E c \in Conns \ {u} :
                 /\ Accepted(c) /\ IsDownload(Request(c))
                 /\ Named(Request(c)) = u
                 /\ GotPipingComplete(c)'
    /\ (Lives(u) /\ Truthy(transferInfo[u].busy)) => Truthy(transferInfo'[u].busy)
    /\ \A c \in Conns :
         (Handled(c) /\ NamesUpload(Request(c)) /\ Named(Request(c)) = u
            /\ pairCount[u] >= 1)
           => /\ sent'[c] = <<ErrorReply("Download ID busy")>>
              /\ sock'[c] = "destroyed"
              /\ pipes'[u] = pipes[u]

\* C15: while a session lives its busy flag changes only from false to
\* true and only in the step that pairs a downloader with it; once true it
\* stays true through every later step (the downloader's end, error or
\* close, later requests), so every later request for a session that was
\* paired once is rejected as busy.
C15_BusyOnlyRises == [][C15_BusyStep]_vars

\* the downloader of a paired session is gone, the session still lives and
\* is still busy, and a later request for it has been rejected as busy
C15_Witness ==
  \E u, c \in Conns :
    /\ closeObserver[u] /\ sock[u] = "open"
    /\ pairCount[u] = 1 /\ pipes[u] = {}
    /\ Truthy(transferInfo[u].busy)
    /\ sock[c] = "destroyed"
    /\ sent[c] = <<ErrorReply("Download ID busy")>>
    /\ IsDownload(transferInfo[c])
    /\ codesHas(transferInfo[c].clientCode.s)
    /\ codes[transferInfo[c].clientCode.s] = u

(***************************************************************************)
(* C16: pairing keeps the upload session, its own close removes it         *)
(***************************************************************************)
\* the registry's entry of the session of slot u, "" if it has none
EntryOf(u) ==
  IF closeObserver[u] /\ codesHas(toString(transferInfo[u].code))
       /\ codes[toString(transferInfo[u].code)] = u
  THEN toString(transferInfo[u].code) ELSE ""

C16_PairingStep ==
  \A c \in Conns :
    (Accepted(c) /\ IsDownload(Request(c)))
      => LET u == Named(Request(c)) IN
         /\ transferInfo'[u] = [transferInfo[u] EXCEPT !.busy = Bool(TRUE)]
         /\ EntryOf(u) # ""
         /\ EntryOf(u) \in DOMAIN codes' /\ codes'[EntryOf(u)] = u
         /\ sock'[u] = sock[u] /\ sent'[u] = sent[u]

C16_RemovalStep ==
  \A u \in Conns :
    (EntryOf(u) # "" /\ transferInfo[u].transferType = Str("upload")
       /\ EntryOf(u) \notin DOMAIN codes')
      => /\ sock[u] # "closed" /\ sock'[u] = "closed"
         /\ ~closeObserver'[u]
         /\ \A d \in Conns \ {u} : sock'[d] = sock[d]

\* C16: a pairing changes of the upload session only the busy flag and
\* leaves its entry in the registry; the entry of an upload session
\* disappears only in the step in which the uploader's own connection
\* closes, in which no other connection closes, and with it the close
\* observer is used up, so the entry is removed once.
C16_RemovedByOwnClose == [][C16_PairingStep]_vars /\ [][C16_RemovalStep]_vars

\* the downloader of a paired session has closed and released its own code,
\* and the upload session is still registered
C16_Witness ==
  \E u \in Conns :
    /\ sock[u] = "open" /\ pairCount[u] = 1 /\ pipes[u] = {}
    /\ transferInfo[u].transferType = Str("upload")
    /\ EntryOf(u) # ""
    /\ lastReleased # "" /\ lastReleased # EntryOf(u)

(***************************************************************************)
(* C17: what a rejected and what an accepted connection is sent            *)
(***************************************************************************)
IsErrorRecord(m) == DOMAIN m = {"error"}

\* the connection of slot c was rejected / is registered or paired
WasRejected(c) == sock[c] # "closed" /\ ~dataListener[c] /\ ~closeObserver[c]

WasAccepted(c) == sock[c] # "closed" /\ closeObserver[c]

C17_Replies ==
  \A c \in Conns :
    /\ WasRejected(c)
         => /\ Len(sent[c]) = 1 /\ IsErrorRecord(sent[c][1])
            /\ sock[c] = "destroyed"
    /\ WasAccepted(c)
         => /\ sent[c] # <<>>
            /\ \A i \in 1..Len(sent[c]) : ~IsErrorRecord(sent[c][i])

C17_HandlerStep ==
  \A c \in Conns :
    Handled(c) =>
      \/ /\ closeObserver'[c] /\ sock'[c] = "open"
         /\ \A i \in 1..Len(sent'[c]) : ~IsErrorRecord(sent'[c][i])
      \/ /\ ~closeObserver'[c] /\ sock'[c] = "destroyed"
         /\ Len(sent'[c]) = 1 /\ IsErrorRecord(sent'[c][1])

\* C17: the handler of a first message either accepts the connection, and
\* then and later writes no error record to it, or rejects it, and then
\* writes exactly one message, an error record, and destroys the socket; a
\* rejected connection is never written FINALIZE_HANDSHAKE or
\* PIPING_COMPLETE.
C17_OneErrorThenClose == []C17_Replies /\ [][C17_HandlerStep]_vars

\* one connection was rejected with its single error record while another
\* is paired and has its two replies
C17_Witness ==
  \E c, d \in Conns :
    /\ WasRejected(c)
    /\ sent[c] = <<ErrorReply("Missing file name or type")>>
    /\ WasAccepted(d) /\ Len(sent[d]) = 2

(***************************************************************************)
(* C19: the handler of a first message terminates                          *)
(***************************************************************************)
\* C19: whatever the registry holds, the handler of a first message ends
\* (registered, paired or rejected): the code allocation never runs forever
\* and so never keeps the server from handling the other connections.
C19_AllocationTerminates == server # "looping"

(***************************************************************************)
(* C18: the order of the checks                                            *)
(***************************************************************************)
\* the value the handler of slot c parsed in this step is a record
ParsedRecord(c) == Request(c) # NoInfo /\ Request(c).t = "object"

\* the first check, in the order of the claim, that a parsed record fails
\* against the state before the step; NoError if it passes them all
FirstFailedCheck(r) ==
  IF ~Truthy(r.transferType) THEN "Missing transfer type"
  ELSE IF r.transferType = Str("upload") /\ ~(Truthy(r.fileName) /\ Truthy(r.fileType))
    THEN "Missing file name or type"
  ELSE IF r.transferType # Str("download") THEN NoError
  ELSE IF ~Truthy(r.clientCode) THEN "Missing client code"
  ELSE IF ~NamesUpload(r) THEN "Download ID not found"
  ELSE IF Truthy(transferInfo[Named(r)].busy) THEN "Download ID busy"
  ELSE IF /\ Truthy(transferInfo[Named(r)].password)
          /\ \/ ~Truthy(r.password)
             \/ toString(r.password) # toString(transferInfo[Named(r)].password)
    THEN "Password does not match"
  ELSE NoError

\* the step allocated no code: the registry is as it was and the request
\* carries no code
NothingAllocated(c) ==
  /\ codes' = codes
  /\ ParsedRecord(c) => Request(c).code = Undef
  /\ ~closeObserver'[c]

C18_RecordStep ==
  \A c \in Conns :
    (Handled(c) /\ ParsedRecord(c)) =>
      IF FirstFailedCheck(Request(c)) = NoError
      THEN Accepted(c)
      ELSE /\ sent'[c] = <<ErrorReply(FirstFailedCheck(Request(c)))>>
           /\ Rejected(c) /\ NothingAllocated(c)

C18_ParseErrorStep ==
  \A c \in Conns :
    (Handled(c) /\ ~ParsedRecord(c)) =>
      /\ sent'[c] \in { <<ErrorReply("Unexpected token in JSON")>>,
                        <<ErrorReply("Cannot read properties of null")>> }
      /\ Rejected(c) /\ NothingAllocated(c)

\* C18 as stated: a first message that is not a structured record is
\* rejected with a parse error; a record is rejected with the reason of the
\* first check it fails, in the order role absent, upload without fileName
\* or fileType, download without clientCode, not found, busy, password
\* mismatch; no code is allocated in any of these cases.
C18_ChecksInOrder == [][C18_ParseErrorStep]_vars /\ [][C18_RecordStep]_vars

C18_ValueStep ==
  \A c \in Conns :
    (Handled(c) /\ ~ParsedRecord(c)) =>
      /\ sent'[c] =
           << ErrorReply(
                IF Request(c) = NoInfo THEN "Unexpected token in JSON"
                ELSE IF Request(c) = JsonNull THEN "Cannot read properties of null"
                ELSE "Missing transfer type") >>
      /\ Rejected(c) /\ NothingAllocated(c)

\* C18 as amended: a first message that is not JSON is rejected with the
\* parse error, the JSON value null with the error of reading a property of
\* null, and any other JSON value that is not a record with 'Missing
\* transfer type', like a record without role; for a record the checks and
\* their order are as stated; no code is allocated in any of these cases.
C18_ChecksInOrderOfValues == [][C18_ValueStep]_vars /\ [][C18_RecordStep]_vars

\* a request with a wrong password for a session that is busy was rejected
\* as busy
C18_Witness ==
  \E c \in Conns :
    /\ sock[c] = "destroyed"
    /\ IsDownload(transferInfo[c])
    /\ transferInfo[c].password = Str("2")
    /\ sent[c] = <<ErrorReply("Download ID busy")>>
    /\ codesHas(transferInfo[c].clientCode.s)
    /\ transferInfo[codes[transferInfo[c].clientCode.s]].password = Str("1")

(***************************************************************************)
(* C20: the client's waiting states                                        *)
(***************************************************************************)
Waiting(cl) == cl.state \in {"awaitCode", "awaitPiping", "awaitReady"}

\* the chunk handled in this step
Chunk == client'.received[Len(client'.received)]

IsErrorChunk(chunk) == chunk.t = "json" /\ responseError(chunk.v)

\* the chunk is not the message the waiting state expects
WrongTag(cl, chunk) ==
  CASE cl.state = "awaitCode" ->
         chunk.t # "json" \/ responseSeq(chunk.v) # "FINALIZE_HANDSHAKE"
    [] cl.state = "awaitPiping" ->
         chunk.t # "json" \/ responseSeq(chunk.v) # "PIPING_COMPLETE"
    [] cl.state = "awaitReady" -> chunk # TextChunk("READY")

C20_WaitingStep ==
  (Waiting(client) /\ client'.received # client.received
     /\ (IsErrorChunk(Chunk) \/ WrongTag(client, Chunk)))
    => /\ client'.state = "exited"
       /\ Len(client'.reported) = Len(client.reported) + 1
       /\ client'.written = client.written

\* C20: in each waiting state of the client (awaiting the code reply,
\* PIPING_COMPLETE or READY) an error record or a message with the wrong
\* tag makes the client report an error and exit, without writing anything
\* (no READY) and without entering the next state.
C20_ClientStopsOnError == [][C20_WaitingStep]_vars

(***************************************************************************)
(* C24: the registry and the connections                                   *)
(***************************************************************************)
\* the connections that completed a handshake and have not closed
AcceptedOpen == { c \in Conns : sock[c] # "closed" /\ closeObserver[c] }

\* C24: every entry of the registry is stored under the code its own record
\* carries and belongs to a connection that was accepted and has not
\* closed; different keys belong to different connections, so there are
\* never more entries than accepted connections that are open.
C24_RegistryConsistent ==
  /\ \A k \in DOMAIN codes :
       /\ codes[k] \in AcceptedOpen
       /\ transferInfo[codes[k]].t = "object"
       /\ transferInfo[codes[k]].code = Str(k)
  /\ \A k, l \in DOMAIN codes : codes[k] = codes[l] => k = l
  /\ Cardinality(DOMAIN codes) <= Cardinality(AcceptedOpen)

\* a downloader has closed and its entry has gone with it, and the session it
\* was paired with is still registered, its connection being open
C24_Witness ==
  /\ lastReleased # ""
  /\ Cardinality(DOMAIN codes) = 1
  /\ Cardinality(AcceptedOpen) = 1
  /\ \E u \in AcceptedOpen : pairCount[u] = 1

(***************************************************************************)
(* C22: backpressure in the relay                                          *)
(***************************************************************************)
\* the most a socket holds beyond its mark: the chunk that crossed it
BufferBound == HighWaterMark - 1 + MaxChunk

\* what the pipe of direction r holds stays within the bound: read from the
\* source and not yet written (readBuf), written and not yet flushed
\* (writeBuf)
Bounded(r) ==
  /\ Len(r.readBuf) <= BufferBound
  /\ Len(r.writeBuf) <= BufferBound

\* a source whose pipe is in place is paused only while its destination has
\* a 'drain' outstanding
PausedOnlyUntilDrain(r) == r.piped => (r.flowing <=> ~r.needDrain)

\* from r to s nothing was written to a destination that had reported itself
\* full, unless this very step flushed all it held (the 'drain')
NoWriteBeforeDrain(r, s) ==
  r.needDrain =>
    \/ Len(s.writeBuf) <= Len(r.writeBuf)
    \/ s.delivered = r.delivered \o r.writeBuf

C22_FlowStep ==
  /\ NoWriteBeforeDrain(relay, relay')
  /\ NoWriteBeforeDrain(relay.back, relay'.back)

\* C22: in each direction of the relay the data held between source and
\* destination stays bounded; once a write has reported the destination
\* full, nothing more is written to it until it has drained; a piped source
\* is paused exactly while a drain is outstanding; and as long as the pipe
\* is in place the destination does drain, so the source flows again.
C22_Backpressure ==
  /\ [](Bounded(relay) /\ Bounded(relay.back))
  /\ [](PausedOnlyUntilDrain(relay) /\ PausedOnlyUntilDrain(relay.back))
  /\ [][C22_FlowStep]_vars
  /\ (relay.needDrain ~> (relay.flowing \/ ~relay.piped))
  /\ (relay.back.needDrain ~> (relay.back.flowing \/ ~relay.back.piped))

\* both directions were paused and flow again, more than a buffer's worth
\* having gone through each
C22_Witness ==
  /\ relay.paused /\ relay.flowing /\ relay.piped
  /\ relay.back.paused /\ relay.back.flowing
  /\ Len(relay.delivered) > BufferBound
  /\ Len(relay.back.delivered) > BufferBound

(***************************************************************************)
(* C21: the order of PIPING_COMPLETE, READY and the payload                *)
(***************************************************************************)
Has(seq, x) == \E i \in 1..Len(seq) : seq[i] = x

\* the downloader's client has written READY on its connection
ReadySent == Has(client.down.written, "READY")

\* the client was handed a record tagged PIPING_COMPLETE
PipingReceived(cl) ==
  \E i \in 1..Len(cl.received) :
    /\ cl.received[i].t = "json"
    /\ responseSeq(cl.received[i].v) = "PIPING_COMPLETE"

\* the uploader's client has called socket.write with a byte of the archive
PayloadWritten ==
  client.upload.writeBuf # <<>> \/ client.upload.delivered # <<>>

\* C21: the downloader's client has written READY only if it was handed
\* PIPING_COMPLETE before; the uploader's client has written a byte of its
\* payload only if it was handed READY before; and a byte of the payload is on
\* the uploader's connection, in the relay or on the downloader's connection
\* only if the downloader's client has written READY before.
C21_ReadinessOrder ==
  /\ ReadySent => PipingReceived(client.down)
  /\ PayloadWritten => Has(client.up.received, TextChunk("READY"))
  /\ (relay.written # <<>> \/ relay.delivered # <<>>) => ReadySent

\* the whole payload is on the downloader's connection, after READY
C21_Witness ==
  /\ relay.delivered = Payload
  /\ ReadySent
  /\ client.up.state = "uploading"

(***************************************************************************)
(* C25: the pairing is complete before PIPING_COMPLETE, READY gets through *)
(***************************************************************************)
\* the handler that sends PIPING_COMPLETE to the downloader leaves the
\* session busy and both pipes in place, with no 'data' listener of the
\* server on the downloader's socket, before any handler runs that could
\* read what the downloader answers
C25_PairingStep ==
  (~GotPipingComplete(downloaderSlot) /\ GotPipingComplete(downloaderSlot)') =>
    /\ transferInfo'[uploaderSlot].busy = Bool(TRUE)
    /\ uploaderSlot \in pipes'[downloaderSlot]
    /\ downloaderSlot \in pipes'[uploaderSlot]
    /\ relay'.piped /\ relay'.flowing
    /\ relay'.back.piped /\ relay'.back.flowing
    /\ ~dataListener'[downloaderSlot]
    /\ ~ReadySent'

\* all the downloader wrote is on the uploader's connection or on its way
\* there, in order, and the server is not listening for an intent
C25_NothingConsumed ==
  /\ relay.back.written =
       relay.back.delivered \o relay.back.writeBuf \o relay.back.readBuf
         \o relay.back.wire
  /\ relay.back.written # <<>> => ~dataListener[downloaderSlot]

UploadEnded == client.upload.ending

\* the 'close' listener of the downloader's client has run
Done == client.down.state = "done"

\* the bytes the downloader's client was given and wrote to writeStream
Holding == client.download.delivered \o client.download.writeBuf

\* the server ends the downloader's socket only with the whole payload put
\* on its connection
C23_EndAfterPayload == relay.finished => relay.delivered = Payload

====
